---- MODULE Spec2Model ----
(***************************************************************************)
(* Model of src/events.js of plus-plus: handleEvent validates an inbound   *)
(* Slack event, routes it through the handlers table, and the message      *)
(* handler launches one asynchronous reply task per accepted item.         *)
(* Collaborators (points, slack, helpers, messages) are external: their    *)
(* calls are recorded in the order handleEvent issues them, and the        *)
(* completion of each pending call is a step of its own.                   *)
(***************************************************************************)
EXTENDS Integers, Sequences, FiniteSets

----------------------------------------------------------------------------
(* Bounds of the explored inputs *)

\* longest event text, in words
MaxWords == 3

\* longest event text, in words, of the events whose reply tasks are followed
\* through the completion of their collaborator calls
MaxAsyncWords == 2

\* longest text, in words, of the mention events
MaxMentionWords == 3

\* longest text, in words, of the events whose plus/minus replies are followed
\* with every score the store may answer
MaxScoreWords == 2

\* longest text, in words, of the first of two events handled at the same time
MaxTwoWords == 2

----------------------------------------------------------------------------
(* Values *)

\* JavaScript's undefined, for an absent event.type / event.subtype
Undefined == "<undefined>"

\* a target or operator that extractPlusMinusEventData did not resolve (falsy)
NoItem == ""
NoOp == ""

Users == {"U0", "U2"}
Items == {"U0", "U1"}
Ops == {"+", "-", "="}
Channel == "C1"

\* the scores the store may answer with
Scores == {0, 1}

\* event.type values: absent, the two Slack types with a handler, a Slack type
\* without one, and a name that is a property of every object
Types == {Undefined, "message", "app_mention", "reaction_added", "constructor"}
Subtypes == {Undefined, "bot_message"}

\* A text is a sequence of words: whitespace, a word matching no operation
\* grammar, the bot's own mention, a command word, or an operation token
\* carrying what extractPlusMinusEventData resolves from it.
Word(k, i, o) == [kind |-> k, item |-> i, operation |-> o]
WS == Word("ws", NoItem, NoOp)
Hello == Word("word", "hello", NoOp)
BotMention == Word("mention", "BOT", NoOp)
Help == Word("word", "help", NoOp)
ValidTokens == {Word("token", i, o) : i \in Items, o \in Ops}
InvalidTokens == {Word("token", i, NoOp) : i \in Items \cup {NoItem}}
                   \cup {Word("token", NoItem, "+")}
Tokens == ValidTokens \cup InvalidTokens
Words == {WS, Hello, BotMention, Help} \cup Tokens

SeqsUpTo(S, n) == UNION {[1..k -> S] : k \in 0..n}

\* event.text: absent, or a string of at most MaxWords words
Texts == {[defined |-> FALSE, words |-> <<>>]}
           \cup {[defined |-> TRUE, words |-> w] : w \in SeqsUpTo(Words, MaxWords)}

Events == [type : Types, subtype : Subtypes, text : Texts, user : Users, channel : {Channel}]

\* the events that reach a handler, with texts of operation tokens and command words
AsyncTexts == {[defined |-> TRUE, words |-> w] : w \in SeqsUpTo(Tokens \cup {Help}, MaxAsyncWords)}
AsyncEvents == [type : {"message", "app_mention"}, subtype : {Undefined}, text : AsyncTexts,
                user : Users, channel : {Channel}]

\* the mention events: texts of spaces, the bot's mention, the command words,
\* a word that is no command and an operation token
CommandWords == {Word("word", c, NoOp) :
                   c \in {"leaderboard", "help", "thx", "thanks", "thankyou", "++", "--"}}
MentionWords == {WS, BotMention, Hello, Word("token", "U1", "+")} \cup CommandWords
MentionTexts == {[defined |-> TRUE, words |-> w] : w \in SeqsUpTo(MentionWords, MaxMentionWords)}
MentionEvents == [type : {"app_mention"}, subtype : {Undefined}, text : MentionTexts,
                  user : Users, channel : {Channel}]

\* the message events of '+' and '-' tokens
PlusMinusTokens == {Word("token", i, o) : i \in Items, o \in {"+", "-"}}
ScoreTexts == {[defined |-> TRUE, words |-> w] : w \in SeqsUpTo(PlusMinusTokens, MaxScoreWords)}
ScoreEvents == [type : {"message"}, subtype : {Undefined}, text : ScoreTexts,
                user : Users, channel : {Channel}]

\* two message events from different users in different channels: the first
\* of at most MaxTwoWords tokens, the second of one
Channel2 == "C2"
FirstTexts == {[defined |-> TRUE, words |-> w] : w \in SeqsUpTo(PlusMinusTokens, MaxTwoWords)}
FirstEvents == [type : {"message"}, subtype : {Undefined}, text : FirstTexts,
                user : {"U0"}, channel : {Channel}]
SecondTexts == {[defined |-> TRUE, words |-> <<w>>] : w \in PlusMinusTokens}
SecondEvents == [type : {"message"}, subtype : {Undefined}, text : SecondTexts,
                 user : {"U2"}, channel : {Channel2}]

\* the one score followed where the replies of whole batches are interleaved
\* (events.js hands the score to the message template and never inspects it)
OneScore == {0}

----------------------------------------------------------------------------
(* Library and helper functions used by events.js *)

\* String.prototype.trim: drop leading and trailing whitespace
RECURSIVE TrimStart(_)
TrimStart(w) == IF w # <<>> /\ Head(w) = WS THEN TrimStart(Tail(w)) ELSE w

RECURSIVE TrimEnd(_)
TrimEnd(w) == IF w # <<>> /\ w[Len(w)] = WS THEN TrimEnd(SubSeq(w, 1, Len(w) - 1)) ELSE w

Trim(w) == TrimEnd(TrimStart(w))

\* lodash.camelcase on the event types of Types
CamelCase(t) ==
  CASE t = "message" -> "message"
    [] t = "app_mention" -> "appMention"
    [] t = "reaction_added" -> "reactionAdded"
    [] t = "constructor" -> "constructor"
    [] OTHER -> t

\* helpers.extractEvents: the operation tokens of the text, left to right
\* (null, modelled as the empty sequence, when there is none)
IsToken(w) == w.kind = "token"
ExtractEvents(text) == SelectSeq(text.words, IsToken)

\* helpers.extractPlusMinusEventData: the target and operator of one token
ExtractPlusMinusEventData(eventItem) ==
  [item |-> eventItem.item, operation |-> eventItem.operation]

\* Array.prototype.indexOf, 0-based, -1 when absent
IndexOf(s, x) ==
  IF \E k \in 1..Len(s) : s[k] = x
    THEN (CHOOSE k \in 1..Len(s) : s[k] = x /\ \A j \in 1..(k - 1) : s[j] # x) - 1
    ELSE -1

----------------------------------------------------------------------------
(* State *)

VARIABLES
  pc,                       \* "idle" before handleEvent is called, "returned" after
  event,                    \* the event handleEvent was called with
  result,                   \* what handleEvent returned
  warnings,                 \* console.warn diagnostics, in order
  handled,                  \* handler functions invoked, in order
  calls,                    \* collaborator calls issued by handleEvent, in order
  tasks,                    \* the reply promises created, in order of creation, each
                            \* with the collaborator call it is waiting for
  promises,                 \* handlers.message: the promises array (indices into tasks)
  alreadyBeenHandledItems,  \* handlers.message: the items seen so far
  second                    \* a second call of handleEvent, in flight at the same time:
                            \* its event, result, handler invocations, calls, tasks,
                            \* promises array and seen items

vars == <<pc, event, result, warnings, handled, calls, tasks, promises, alreadyBeenHandledItems,
          second>>

NoEvent == [type |-> Undefined, subtype |-> Undefined,
            text |-> [defined |-> FALSE, words |-> <<>>], user |-> "U0", channel |-> Channel]

\* n is the position in eventItems of the token being processed (0: none)
Invocation(h, i, o, n) == [handler |-> h, item |-> i, operation |-> o, n |-> n]
Call(f, i, o, c, n) == [fn |-> f, item |-> i, operation |-> o, channel |-> c, n |-> n]
\* a reply promise: score holds what the score store answered (<<>> before),
\* sent the message given to slack.sendMessage (<<>> while it was not called)
Task(h, i, o, c, s, n, m) ==
  [handler |-> h, item |-> i, operation |-> o, channel |-> c, state |-> s, n |-> n,
   score |-> <<>>, sent |-> m]

\* messages.getRandomMessage / getMessageForIndividualScore: the text is a
\* function of the operation name, the subject and the score
Message(o, i, score) == <<o, i>> \o score

\* the effects accumulated while one handler call runs
Fresh == [handled |-> <<>>, calls |-> <<>>, tasks |-> <<>>, promises |-> <<>>,
          alreadyBeenHandledItems |-> <<>>]

\* a handler that issues one collaborator call and returns the promise awaiting it
Launch(acc, h, i, o, c, f, s) ==
  LET n == Len(acc.alreadyBeenHandledItems)
  IN [acc EXCEPT !.handled = Append(@, Invocation(h, i, o, n)),
                 !.calls = Append(@, Call(f, i, o, c, n)),
                 !.tasks = Append(@, Task(h, i, o, c, s, n,
                                          IF f = "sendMessage" THEN Message(o, i, <<>>)
                                                               ELSE <<>>))]

----------------------------------------------------------------------------
(* The operation handlers *)

\* handleSelfPlus: log, pick the SELF message, slack.sendMessage
HandleSelfPlus(acc, user, channel) ==
  Launch(acc, "handleSelfPlus", user, "selfPlus", channel, "sendMessage", "awaitSend")

\* handlePlusMinus up to its await: points.updateScore( item, operation )
HandlePlusMinus(acc, item, operation, channel) ==
  Launch(acc, "handlePlusMinus", item, operation, channel, "updateScore", "awaitScore")

\* handleRetrieveScore up to its await: points.retrieveIndividualScore( item )
HandleRetrieveScore(acc, item, channel) ==
  Launch(acc, "handleRetrieveScore", item, "=", channel, "retrieveIndividualScore", "awaitScore")

----------------------------------------------------------------------------
(* handlers.message *)

\* alreadyBeenHandledItems kept in one list shared by all calls of the handler
MessageLocals_Shared ==
  [Fresh EXCEPT !.alreadyBeenHandledItems = alreadyBeenHandledItems \o second.alreadyBeenHandledItems]

\* var promises = []; var alreadyBeenHandledItems = []; both are created anew
\* by every call of the handler
MessageLocals == Fresh

\* the two conditions joined by && instead of ||
Unresolved_And(item, operation) == item = NoItem /\ operation = NoOp

\* ! item || ! operation
Unresolved(item, operation) == item = NoItem \/ operation = NoOp

\* the check made with >= 0: any earlier record of the item suppresses
AlreadyHandled_AnyPosition(seen, item) == IndexOf(seen, item) >= 0

\* alreadyBeenHandledItems.indexOf( item ) > 0
AlreadyHandled(seen, item) == IndexOf(seen, item) > 0

\* the operator is not looked at
IsSelfPlus_AnyOperation(item, operation, user) == item = user

\* item === event.user && '+' === operation
IsSelfPlus(item, operation, user) == item = user /\ operation = "+"

\* '=' === operation
IsRetrieve(operation) == operation = "="

\* the body of the forEach callback, for one eventItem
MessageItem(acc, eventItem, ev) ==
  LET d == ExtractPlusMinusEventData(eventItem)
      promise == ~(Unresolved(d.item, d.operation)
                     \/ AlreadyHandled(acc.alreadyBeenHandledItems, d.item))
      a1 == [acc EXCEPT !.alreadyBeenHandledItems = Append(@, d.item)]
      a2 == IF IsSelfPlus(d.item, d.operation, ev.user)
              THEN HandleSelfPlus(a1, ev.user, ev.channel) ELSE a1
      a3 == IF IsRetrieve(d.operation)
              THEN HandleRetrieveScore(a2, d.item, ev.channel) ELSE a2
      a4 == HandlePlusMinus(a3, d.item, d.operation, ev.channel)
  IN IF promise THEN [a4 EXCEPT !.promises = Append(@, Len(a4.tasks))] ELSE a1

\* the loop left after its first eventItem
ForEach_FirstOnly(acc, eventItems, ev) ==
  IF eventItems = <<>> THEN acc ELSE MessageItem(acc, Head(eventItems), ev)

RECURSIVE ForEach(_, _, _)
ForEach(acc, eventItems, ev) ==
  IF eventItems = <<>> THEN acc
  ELSE ForEach(MessageItem(acc, Head(eventItems), ev), Tail(eventItems), ev)

\* handlers.message: its effects, and whether it returns Promise.all or false
MessageHandler(ev) ==
  LET start == [MessageLocals EXCEPT !.handled = <<Invocation("message", NoItem, NoOp, 0)>>]
      acc == ForEach(start, ExtractEvents(ev.text), ev)
  IN [acc |-> acc, result |-> IF Len(acc.promises) > 0 THEN "promise" ELSE "false"]

----------------------------------------------------------------------------
(* handlers.appMention *)

NoCommand == ""

\* Object.keys( appCommandHandlers )
ValidCommands == {"leaderboard", "help", "thx", "thanks", "thankyou", "++", "--"}

\* appCommandHandlers[ appCommand ]
AppCommandHandler(c) ==
  CASE c = "leaderboard" -> "leaderboard.handler"
    [] c = "help" -> "sendHelp"
    [] c \in {"thx", "thanks", "thankyou"} -> "sayThankyou"
    [] c = "++" -> "appMentionPlusPlus"
    [] c = "--" -> "appMentionMinusMinus"

\* helpers.extractCommand: the first word after the leading bot mention, when it
\* is a command of the vocabulary
IsNotSpace(w) == w # WS
ExtractCommand(text, validCommands) ==
  LET w == SelectSeq(text.words, IsNotSpace)
      rest == IF w # <<>> /\ Head(w) = BotMention THEN Tail(w) ELSE w
  IN IF rest # <<>> /\ Head(rest).kind = "word" /\ Head(rest).item \in validCommands
       THEN Head(rest).item ELSE NoCommand

\* the command's handler called without return, so that the default reply follows
AppMentionHandler_FallsThrough(ev) ==
  LET start == [Fresh EXCEPT !.handled = <<Invocation("appMention", NoItem, NoOp, 0)>>]
      appCommand == ExtractCommand(ev.text, ValidCommands)
      a1 == IF appCommand # NoCommand
              THEN Launch(start, AppCommandHandler(appCommand), NoItem, appCommand,
                          ev.channel, "sendMessage", "awaitSend")
              ELSE start
      acc == [a1 EXCEPT !.calls = Append(@, Call("sendMessage", NoItem, "default",
                                                  ev.channel, 0)),
                        !.tasks = Append(@, Task("appMention", NoItem, "default",
                                                 ev.channel, "awaitSend", 0,
                                                 Message("default", NoItem, <<>>)))]
  IN [acc |-> acc, result |-> "promise"]

\* handlers.appMention: the command's handler, or the default reply
AppMentionHandler(ev) ==
  LET start == [Fresh EXCEPT !.handled = <<Invocation("appMention", NoItem, NoOp, 0)>>]
      appCommand == ExtractCommand(ev.text, ValidCommands)
      acc == IF appCommand # NoCommand
               THEN IF appCommand = "leaderboard"
                      THEN Launch(start, AppCommandHandler(appCommand), NoItem, appCommand,
                                  ev.channel, "leaderboard", "awaitScore")
                      ELSE Launch(start, AppCommandHandler(appCommand), NoItem, appCommand,
                                  ev.channel, "sendMessage", "awaitSend")
               ELSE [start EXCEPT !.calls = Append(@, Call("sendMessage", NoItem, "default",
                                                             ev.channel, 0)),
                                  !.tasks = Append(@, Task("appMention", NoItem, "default",
                                                           ev.channel, "awaitSend", 0,
                                                           Message("default", NoItem, <<>>)))]
  IN [acc |-> acc, result |-> "promise"]

----------------------------------------------------------------------------
(* handleEvent *)

\* 'undefined' === typeof event.type
TypeMissing(ev) == ev.type = Undefined

\* the comparison inverted
HasSubtype_Inverted(ev) == ev.subtype = Undefined

\* 'undefined' !== typeof event.subtype
HasSubtype(ev) == ev.subtype # Undefined

\* the text tested without trimming it
TextMissing_NoTrim(ev) == ~ev.text.defined \/ ev.text.words = <<>>

\* 'undefined' === typeof event.text || ! event.text.trim()
TextMissing(ev) == ~ev.text.defined \/ Trim(ev.text.words) = <<>>

\* the own properties of the handlers object literal
OwnHandlers == {"message", "appMention"}

\* functions every object literal inherits from Object.prototype
InheritedFunctions == {"constructor", "toString", "toLocaleString", "valueOf",
                       "hasOwnProperty", "isPrototypeOf", "propertyIsEnumerable"}

\* handlers[ eventName ] instanceof Function
IsFunction(eventName) == eventName \in OwnHandlers \cup InheritedFunctions

\* handlers[ eventName ]( event, request )
CallHandler(eventName, ev) ==
  CASE eventName = "message" -> MessageHandler(ev)
    [] eventName = "appMention" -> AppMentionHandler(ev)
    [] eventName = "hasOwnProperty" ->
         [acc |-> [Fresh EXCEPT !.handled = <<Invocation("Object.prototype." \o eventName,
                                                          NoItem, NoOp, 0)>>],
          result |-> "false"]
    [] OTHER ->
         [acc |-> [Fresh EXCEPT !.handled = <<Invocation("Object.prototype." \o eventName,
                                                          NoItem, NoOp, 0)>>],
          result |-> "value"]

Rejected(warning) == [acc |-> Fresh, result |-> "false", warnings |-> <<warning>>]

\* what one call of handleEvent does and returns
HandleEventOutcome(ev) ==
  IF TypeMissing(ev) THEN Rejected("Event data missing")
  ELSE IF HasSubtype(ev) THEN Rejected("Unsupported event subtype")
  ELSE IF TextMissing(ev) THEN Rejected("Event text missing")
  ELSE LET eventName == CamelCase(ev.type)
       IN IF IsFunction(eventName)
            THEN LET r == CallHandler(eventName, ev)
                 IN [acc |-> r.acc, result |-> r.result, warnings |-> <<>>]
            ELSE Rejected("Invalid event received")

----------------------------------------------------------------------------
(* Actions *)

NoSecond ==
  [pc |-> "idle", event |-> NoEvent, result |-> "none", handled |-> <<>>, calls |-> <<>>,
   tasks |-> <<>>, promises |-> <<>>, alreadyBeenHandledItems |-> <<>>]

Init ==
  /\ pc = "idle"
  /\ event = NoEvent
  /\ result = "none"
  /\ warnings = <<>>
  /\ handled = <<>>
  /\ calls = <<>>
  /\ tasks = <<>>
  /\ promises = <<>>
  /\ alreadyBeenHandledItems = <<>>
  /\ second = NoSecond

\* handleEvent( event, request ), up to its return
HandleEvent(inbound) ==
  /\ pc = "idle"
  /\ \E ev \in inbound :
       LET out == HandleEventOutcome(ev)
       IN /\ pc' = "returned"
          /\ event' = ev
          /\ result' = out.result
          /\ warnings' = out.warnings
          /\ handled' = out.acc.handled
          /\ calls' = out.acc.calls
          /\ tasks' = out.acc.tasks
          /\ promises' = out.acc.promises
          /\ alreadyBeenHandledItems' = out.acc.alreadyBeenHandledItems
  /\ UNCHANGED second

\* the message is built from a fixed score, whatever the store returned
ScoreAnswered_IgnoresScore(ts, t, s) ==
  [ts EXCEPT ![t].state = "awaitSend",
             ![t].score = <<s>>,
             ![t].sent = Message(ts[t].operation, ts[t].item, <<0>>)]

\* the tasks ts after task t's await of the score store returned score s: the
\* handler builds its message from s and calls slack.sendMessage
ScoreAnswered(ts, t, s) ==
  [ts EXCEPT ![t].state = "awaitSend",
             ![t].score = <<s>>,
             ![t].sent = Message(ts[t].operation, ts[t].item, <<s>>)]

\* the tasks ts after the promise of task t moved to state to
Settled(ts, t, to) == [ts EXCEPT ![t].state = to]

\* the handler resumes only while no sibling promise has rejected
ScoreResolves_UnlessSiblingFailed(t, s) ==
  /\ pc = "returned"
  /\ tasks[t].state = "awaitScore"
  /\ \A u \in DOMAIN tasks : tasks[u].state \notin {"scoreFailed", "sendFailed"}
  /\ tasks' = ScoreAnswered(tasks, t, s)
  /\ UNCHANGED <<pc, event, result, warnings, handled, calls, promises,
                 alreadyBeenHandledItems, second>>

\* the score store answers task t's request with score s: the handler resumes
\* after its await, builds the message and calls slack.sendMessage
ScoreResolves(t, s) ==
  /\ pc = "returned"
  /\ tasks[t].state = "awaitScore"
  /\ tasks' = ScoreAnswered(tasks, t, s)
  /\ UNCHANGED <<pc, event, result, warnings, handled, calls, promises,
                 alreadyBeenHandledItems, second>>

\* the score store rejects task t's request: the await throws, the handler's
\* promise rejects and sendMessage is never called
ScoreRejects(t) ==
  /\ pc = "returned"
  /\ tasks[t].state = "awaitScore"
  /\ tasks' = Settled(tasks, t, "scoreFailed")
  /\ UNCHANGED <<pc, event, result, warnings, handled, calls, promises,
                 alreadyBeenHandledItems, second>>

\* slack.sendMessage of task t completes: the handler's promise fulfils
SendResolves(t) ==
  /\ pc = "returned"
  /\ tasks[t].state = "awaitSend"
  /\ tasks' = Settled(tasks, t, "fulfilled")
  /\ UNCHANGED <<pc, event, result, warnings, handled, calls, promises,
                 alreadyBeenHandledItems, second>>

\* slack.sendMessage of task t fails: the handler's promise rejects
SendRejects(t) ==
  /\ pc = "returned"
  /\ tasks[t].state = "awaitSend"
  /\ tasks' = Settled(tasks, t, "sendFailed")
  /\ UNCHANGED <<pc, event, result, warnings, handled, calls, promises,
                 alreadyBeenHandledItems, second>>

\* task t has called slack.sendMessage (at its start, or after its await)
SendIssued(t) == tasks[t].sent # <<>>

\* the promise of task t rejected
Failed(t) == tasks[t].state \in {"scoreFailed", "sendFailed"}

\* the promise of task t settled
Completed(t) == tasks[t].state = "fulfilled" \/ Failed(t)

\* Promise.all( promises ): rejected as soon as one of the promises rejects,
\* fulfilled once all of them are
PromiseAll ==
  IF \E k \in DOMAIN promises : Failed(promises[k]) THEN "rejected"
  ELSE IF \A k \in DOMAIN promises : tasks[promises[k]].state = "fulfilled" THEN "fulfilled"
  ELSE "pending"

----------------------------------------------------------------------------
(* A second event handled while the replies of the first are in flight *)

\* handleEvent( event, request ) for the second event, up to its return
HandleSecond(inbound) ==
  /\ second.pc = "idle"
  /\ \E ev \in inbound :
       LET out == HandleEventOutcome(ev)
       IN second' = [pc |-> "returned", event |-> ev, result |-> out.result,
                     handled |-> out.acc.handled, calls |-> out.acc.calls,
                     tasks |-> out.acc.tasks, promises |-> out.acc.promises,
                     alreadyBeenHandledItems |-> out.acc.alreadyBeenHandledItems]
  /\ UNCHANGED <<pc, event, result, warnings, handled, calls, tasks, promises,
                 alreadyBeenHandledItems>>

\* the collaborator call that task t of the second event awaits completes
SecondScoreResolves(t, s) ==
  /\ second.pc = "returned"
  /\ second.tasks[t].state = "awaitScore"
  /\ second' = [second EXCEPT !.tasks = ScoreAnswered(@, t, s)]
  /\ UNCHANGED <<pc, event, result, warnings, handled, calls, tasks, promises,
                 alreadyBeenHandledItems>>

SecondScoreRejects(t) ==
  /\ second.pc = "returned"
  /\ second.tasks[t].state = "awaitScore"
  /\ second' = [second EXCEPT !.tasks = Settled(@, t, "scoreFailed")]
  /\ UNCHANGED <<pc, event, result, warnings, handled, calls, tasks, promises,
                 alreadyBeenHandledItems>>

SecondSendResolves(t) ==
  /\ second.pc = "returned"
  /\ second.tasks[t].state = "awaitSend"
  /\ second' = [second EXCEPT !.tasks = Settled(@, t, "fulfilled")]
  /\ UNCHANGED <<pc, event, result, warnings, handled, calls, tasks, promises,
                 alreadyBeenHandledItems>>

SecondSendRejects(t) ==
  /\ second.pc = "returned"
  /\ second.tasks[t].state = "awaitSend"
  /\ second' = [second EXCEPT !.tasks = Settled(@, t, "sendFailed")]
  /\ UNCHANGED <<pc, event, result, warnings, handled, calls, tasks, promises,
                 alreadyBeenHandledItems>>

----------------------------------------------------------------------------
(* Specifications *)

\* handleEvent is called with any event
Next ==
  \/ HandleEvent(Events)

Spec == Init /\ [][Next]_vars

\* handleEvent is called with an event that reaches a handler, and the
\* collaborator calls of its reply tasks complete in any order
NextAsync ==
  \/ HandleEvent(AsyncEvents)
  \/ \E t \in DOMAIN tasks : \E s \in OneScore : ScoreResolves(t, s)
  \/ \E t \in DOMAIN tasks : ScoreRejects(t)
  \/ \E t \in DOMAIN tasks : SendResolves(t)
  \/ \E t \in DOMAIN tasks : SendRejects(t)

SpecAsync == Init /\ [][NextAsync]_vars

\* handleEvent is called with a mention event, and the collaborator calls of its
\* reply complete
NextMention ==
  \/ HandleEvent(MentionEvents)
  \/ \E t \in DOMAIN tasks : \E s \in Scores : ScoreResolves(t, s)
  \/ \E t \in DOMAIN tasks : ScoreRejects(t)
  \/ \E t \in DOMAIN tasks : SendResolves(t)
  \/ \E t \in DOMAIN tasks : SendRejects(t)

SpecMention == Init /\ [][NextMention]_vars

\* handleEvent is called with a message event of '+' and '-' tokens, and the
\* score store answers each request with any score, or fails
NextScore ==
  \/ HandleEvent(ScoreEvents)
  \/ \E t \in DOMAIN tasks : \E s \in Scores : ScoreResolves(t, s)
  \/ \E t \in DOMAIN tasks : ScoreRejects(t)
  \/ \E t \in DOMAIN tasks : SendResolves(t)
  \/ \E t \in DOMAIN tasks : SendRejects(t)

SpecScore == Init /\ [][NextScore]_vars

\* handleEvent is called with two message events, in either order, and the
\* collaborator calls of the reply tasks of both complete in any order
NextTwo ==
  \/ HandleEvent(FirstEvents)
  \/ HandleSecond(SecondEvents)
  \/ \E t \in DOMAIN tasks : \E s \in OneScore : ScoreResolves(t, s)
  \/ \E t \in DOMAIN tasks : ScoreRejects(t)
  \/ \E t \in DOMAIN tasks : SendResolves(t)
  \/ \E t \in DOMAIN tasks : SendRejects(t)
  \/ \E t \in DOMAIN second.tasks : \E s \in OneScore : SecondScoreResolves(t, s)
  \/ \E t \in DOMAIN second.tasks : SecondScoreRejects(t)
  \/ \E t \in DOMAIN second.tasks : SecondSendResolves(t)
  \/ \E t \in DOMAIN second.tasks : SecondSendRejects(t)

SpecTwo == Init /\ [][NextTwo]_vars

----------------------------------------------------------------------------
(* Vocabulary of the properties *)

Returned == pc = "returned"

\* the event passes validation and its type is the plain-message type
MessageEvent ==
  /\ Returned
  /\ event.type = "message"
  /\ event.subtype = Undefined
  /\ event.text.defined
  /\ \E k \in DOMAIN event.text.words : event.text.words[k] # WS

EventItems == ExtractEvents(event.text)

\* an OperationItem: the target is non-empty and the operation one of the three
Valid(w) == w.item \in Items /\ w.operation \in Ops

\* token k is in the OperationBatch: valid, and the first valid token of its target
InBatch(k) ==
  /\ k \in DOMAIN EventItems
  /\ Valid(EventItems[k])
  /\ \A j \in 1..(k - 1) : ~(Valid(EventItems[j]) /\ EventItems[j].item = EventItems[k].item)

\* the invocations of handler h made for token k
Invocations(h, k) == {x \in DOMAIN handled : handled[x].handler = h /\ handled[x].n = k}

\* the calls of collaborator function f with target i
CallsFor(f, i) == {x \in DOMAIN calls : calls[x].fn = f /\ calls[x].item = i}

\* the calls of collaborator function f made for token k
CallsAt(f, k) == {x \in DOMAIN calls : calls[x].fn = f /\ calls[x].n = k}

IsUpdateScore(c) == c.fn = "updateScore"
Request(c) == [item |-> c.item, operation |-> c.operation]

\* the points.updateScore requests, in the order they were issued
UpdateRequests ==
  LET u == SelectSeq(calls, IsUpdateScore) IN [k \in DOMAIN u |-> Request(u[k])]

----------------------------------------------------------------------------
(* Properties *)

\* C1: when the actor's batch holds (actor, '+'), the self-plus handler is
\* invoked exactly once for that item and points.updateScore is never called
\* for the actor.
C1_SelfPlusInsteadOfPlusMinus ==
  MessageEvent =>
    \A k \in DOMAIN EventItems :
      (InBatch(k) /\ EventItems[k].item = event.user /\ EventItems[k].operation = "+")
        => /\ Cardinality(Invocations("handleSelfPlus", k)) = 1
           /\ CallsFor("updateScore", event.user) = {}

\* C2: for every batch item whose operation is '=', the retrieval handler asks
\* points.retrieveIndividualScore for the target and points.updateScore is
\* never called for that item.
C2_RetrieveNeverMutates ==
  MessageEvent =>
    \A k \in DOMAIN EventItems :
      (InBatch(k) /\ EventItems[k].operation = "=")
        => /\ \E x \in CallsAt("retrieveIndividualScore", k) :
                calls[x].item = EventItems[k].item
           /\ CallsAt("updateScore", k) = {}

\* C3: when a target occurs in two or more tokens, exactly one operation is
\* dispatched for it, with the operator of its first occurrence, and no handler
\* is invoked for a later occurrence.
C3_FirstOccurrenceWins ==
  MessageEvent =>
    \A i \in Items :
      LET occ == {k \in DOMAIN EventItems : Valid(EventItems[k]) /\ EventItems[k].item = i}
          first == CHOOSE k \in occ : \A j \in occ : k <= j
      IN Cardinality(occ) >= 2
           => /\ Cardinality({x \in DOMAIN promises : tasks[promises[x]].item = i}) = 1
              /\ \A x \in DOMAIN promises :
                   tasks[promises[x]].item = i
                     => tasks[promises[x]].operation = EventItems[first].operation
              /\ \A k \in occ \ {first} : \A x \in DOMAIN handled : handled[x].n # k

\* the valid items of the text, left to right
PlusMinusItems == SelectSeq(EventItems, Valid)

\* the targets named in the text are pairwise distinct, and every valid item is
\* a '+' or a '-' on somebody other than the actor
DistinctPlusMinus ==
  /\ MessageEvent
  /\ \A j, k \in DOMAIN EventItems :
       (j # k /\ EventItems[j].item \in Items) => EventItems[j].item # EventItems[k].item
  /\ \A k \in DOMAIN EventItems :
       Valid(EventItems[k])
         => EventItems[k].item # event.user /\ EventItems[k].operation \in {"+", "-"}

\* C4: when the targets named in the text are pairwise distinct and every
\* valid item is a '+' or '-' on somebody other than the actor, there are as
\* many reply tasks as valid items and the points.updateScore requests are
\* exactly those items' (target, operation), in the order of the text.
C4_OneUpdatePerItemInOrder ==
  DistinctPlusMinus =>
    /\ Len(tasks) = Len(PlusMinusItems)
    /\ Len(promises) = Len(PlusMinusItems)
    /\ Len(UpdateRequests) = Len(PlusMinusItems)
    /\ \A k \in DOMAIN PlusMinusItems :
         /\ UpdateRequests[k] = [item |-> PlusMinusItems[k].item,
                                 operation |-> PlusMinusItems[k].operation]
         /\ tasks[k].handler = "handlePlusMinus"
         /\ tasks[k].item = PlusMinusItems[k].item
         /\ tasks[k].operation = PlusMinusItems[k].operation

\* two distinct items, a '+' then a '-', both replies sent
C4_Witness ==
  /\ DistinctPlusMinus
  /\ Len(PlusMinusItems) = 2
  /\ PlusMinusItems[1].operation = "+"
  /\ PlusMinusItems[2].operation = "-"
  /\ \A t \in DOMAIN tasks : tasks[t].state = "fulfilled"

\* C5: when the actor's batch holds (actor, '-'), the self-plus handler is not
\* invoked and exactly one points.updateScore(actor, '-') is requested; a batch
\* item (actor, '=') is not routed to the self-plus handler.
C5_SelfMinusIsOrdinary ==
  MessageEvent =>
    \A k \in DOMAIN EventItems :
      (InBatch(k) /\ EventItems[k].item = event.user)
        => /\ EventItems[k].operation = "-"
                => /\ \A x \in DOMAIN handled : handled[x].handler # "handleSelfPlus"
                   /\ Cardinality({x \in CallsFor("updateScore", event.user) :
                                     calls[x].operation = "-"}) = 1
           /\ EventItems[k].operation = "="
                => Invocations("handleSelfPlus", k) = {}

\* nothing was dispatched: no handler ran, no collaborator was called, and no
\* reply task exists that could call one later
NothingDispatched == handled = <<>> /\ calls = <<>> /\ tasks = <<>>

\* C6: an event with a subtype set gets the not-handled result and reaches no
\* handler and no collaborator, whatever its type and text.
C6_SubtypeNeverDispatched ==
  (Returned /\ event.subtype # Undefined) => (result = "false" /\ NothingDispatched)

\* a message event with a subtype whose text holds a valid operation
C6_Witness ==
  /\ Returned
  /\ event.subtype # Undefined
  /\ event.type = "message"
  /\ \E k \in DOMAIN EventItems : Valid(EventItems[k])

\* the text is empty or made of whitespace only
Blank(text) == \A k \in DOMAIN text.words : text.words[k] = WS

\* C7: an event whose type is absent, or whose text is absent or made of
\* whitespace only, gets the result false, and no handler sees it: no reply is
\* sent and the score store is not called.
C7_MalformedEventRejected ==
  (Returned /\ (event.type = Undefined \/ ~event.text.defined \/ Blank(event.text)))
    => (result = "false" /\ NothingDispatched)

\* a message event without subtype whose text is two spaces
C7_Witness ==
  /\ Returned
  /\ event.type = "message"
  /\ event.subtype = Undefined
  /\ event.text.defined
  /\ event.text.words = <<WS, WS>>

\* the event passes validation
ValidEvent ==
  /\ Returned
  /\ event.type # Undefined
  /\ event.subtype = Undefined
  /\ event.text.defined
  /\ ~Blank(event.text)

\* C8: a valid event whose type is neither the plain-message type nor the
\* directed-mention type gets the result false and no function is invoked on it.
C8_OnlyTwoHandlers ==
  (ValidEvent /\ event.type \notin {"message", "app_mention"})
    => (result = "false" /\ handled = <<>>)

\* C9: a message event whose text yields no valid operation item launches no
\* reply task and makes no collaborator call.
C9_EmptyBatchNoTasks ==
  (MessageEvent /\ \A k \in DOMAIN EventItems : ~Valid(EventItems[k]))
    => (tasks = <<>> /\ calls = <<>> /\ promises = <<>>)

\* a message event whose tokens all fail to resolve, one for its target and
\* one for its operator
C9_Witness ==
  /\ MessageEvent
  /\ \A k \in DOMAIN EventItems : ~Valid(EventItems[k])
  /\ \E k \in DOMAIN EventItems : EventItems[k].item = NoItem
  /\ \E k \in DOMAIN EventItems : EventItems[k].item \in Items

\* events that handleEvent does not handle: no type, a subtype, no text, a
\* blank text, a type without handler
NotHandledEvents ==
  {[NoEvent EXCEPT !.type = "message"],
   [type |-> "message", subtype |-> "bot_message",
    text |-> [defined |-> TRUE, words |-> <<Hello>>], user |-> "U0", channel |-> Channel],
   [type |-> "message", subtype |-> Undefined,
    text |-> [defined |-> TRUE, words |-> <<WS>>], user |-> "U0", channel |-> Channel],
   [type |-> "reaction_added", subtype |-> Undefined,
    text |-> [defined |-> TRUE, words |-> <<Hello>>], user |-> "U0", channel |-> Channel],
   NoEvent}

\* C10: the result handleEvent returns for a valid message event with an empty
\* batch differs from the result it returns for an event it does not handle.
C10_EmptyBatchDistinguishable ==
  (MessageEvent /\ \A k \in DOMAIN EventItems : ~Valid(EventItems[k]))
    => \A ev \in NotHandledEvents : HandleEventOutcome(ev).result # result

\* the event passes validation and its type is the directed-mention type
MentionEvent == ValidEvent /\ event.type = "app_mention"

\* the invocations of the command handlers
CommandInvocations == {x \in DOMAIN handled : handled[x].handler # "appMention"}

\* C11: a valid mention event produces exactly one reply task: when a command
\* of the table is resolved, that command's handler is invoked once and the
\* default reply is not sent; when none is, the default reply is sent once to
\* the event's channel and no command handler is invoked.
C11_OneCommandOneReply ==
  MentionEvent =>
    LET c == ExtractCommand(event.text, ValidCommands)
    IN /\ result = "promise"
       /\ Len(tasks) = 1
       /\ Len(calls) = 1
       /\ tasks[1].channel = event.channel
       /\ c # NoCommand =>
            /\ c \in ValidCommands
            /\ Cardinality(CommandInvocations) = 1
            /\ \A x \in CommandInvocations :
                 handled[x].handler = AppCommandHandler(c) /\ handled[x].operation = c
            /\ tasks[1].operation = c
            /\ \A x \in DOMAIN calls : calls[x].operation # "default"
       /\ c = NoCommand =>
            /\ CommandInvocations = {}
            /\ calls = <<Call("sendMessage", NoItem, "default", event.channel, 0)>>
            /\ tasks[1].sent = Message("default", NoItem, <<>>)

\* "<@BOT> thanks" was answered by sayThankyou, and the reply was delivered
C11_Witness ==
  /\ MentionEvent
  /\ event.text.words = <<BotMention, WS, Word("word", "thanks", NoOp)>>
  /\ handled[2].handler = "sayThankyou"
  /\ tasks[1].state = "fulfilled"

\* handlers.message returned the promise of Promise.all
Aggregated == MessageEvent /\ result = "promise"

\* C12: when a reply task launched for the event fails, the aggregate the
\* dispatch call returned is never a success: every launched task is part of it.
C12_FailureReachesAggregate ==
  (Aggregated /\ \E t \in DOMAIN tasks : Failed(t)) => PromiseAll # "fulfilled"

\* C13: the aggregate of a message event settles only after every reply task
\* launched for the event has completed, so that no collaborator call of the
\* event comes after it.
C13_AggregateSettlesLast ==
  (Aggregated /\ PromiseAll # "pending") => \A t \in DOMAIN tasks : Completed(t)

\* C14: a failed task neither cancels nor blocks its siblings: whatever the
\* others did, a task waiting for the score store can resume and send its
\* reply, and a task waiting for slack.sendMessage can fulfil.
C14_SiblingsIndependent ==
  Aggregated =>
    \A t \in DOMAIN tasks :
      /\ tasks[t].state = "awaitScore" => ENABLED (\E s \in OneScore : ScoreResolves(t, s))
      /\ tasks[t].state = "awaitSend" => ENABLED SendResolves(t)
      /\ (tasks[t].state = "fulfilled" /\ tasks[t].handler = "handlePlusMinus")
           => tasks[t].sent = Message(tasks[t].operation, tasks[t].item, tasks[t].score)

\* the first item's score update failed and the second item's reply was
\* delivered all the same
C14_Witness ==
  /\ Aggregated
  /\ promises = <<1, 2>>
  /\ tasks[1].state = "scoreFailed"
  /\ tasks[2].state = "fulfilled"
  /\ tasks[2].sent # <<>>

\* the reply tasks of the plus/minus handler
PlusMinusTasks == {t \in DOMAIN tasks : tasks[t].handler = "handlePlusMinus"}

\* C15: a plus/minus task has issued exactly one points.updateScore call, for
\* its own item and operation; it has sent nothing while that call is pending
\* and nothing when that call failed; and what it sent is the message built from
\* the score that call returned.
C15_ReplyAfterScore ==
  MessageEvent =>
    /\ Len(SelectSeq(calls, IsUpdateScore)) = Cardinality(PlusMinusTasks)
    /\ \A t \in PlusMinusTasks :
         /\ IsUpdateScore(calls[t])
         /\ Request(calls[t]) = [item |-> tasks[t].item, operation |-> tasks[t].operation]
         /\ tasks[t].state \in {"awaitScore", "scoreFailed"}
              => tasks[t].score = <<>> /\ ~SendIssued(t)
         /\ SendIssued(t)
              => /\ tasks[t].score # <<>>
                 /\ tasks[t].sent = Message(tasks[t].operation, tasks[t].item, tasks[t].score)

\* two plus/minus tasks: the score request of one failed, the other was
\* answered with a score other than 0 and its reply was sent
C15_Witness ==
  /\ MessageEvent
  /\ \E t, u \in PlusMinusTasks :
       /\ tasks[t].state = "scoreFailed"
       /\ tasks[u].state = "fulfilled"
       /\ tasks[u].score = <<1>>

\* token k was dispatched: a handler was invoked for it
Dispatched(k) == \E x \in DOMAIN handled : handled[x].n = k

\* C16: every handler invocation and every collaborator call is made for a
\* token with a target and one of the three operations, and every token of the
\* batch is dispatched whatever invalid tokens stand before or after it.
C16_InvalidDroppedAlone ==
  MessageEvent =>
    /\ \A x \in DOMAIN handled : handled[x].n # 0 => Valid(EventItems[handled[x].n])
    /\ \A x \in DOMAIN calls : Valid(EventItems[calls[x].n])
    /\ \A k \in DOMAIN EventItems : InBatch(k) => Dispatched(k)

\* the targets of all the tokens of the text, valid or not, left to right
SeenItems == [k \in DOMAIN EventItems |-> EventItems[k].item]

\* the target of token k stands in an earlier token
Repeat(k) == \E j \in 1..(k - 1) : EventItems[j].item = EventItems[k].item

\* C17: the seen list holds the target of every token, valid or not, in order;
\* a valid token is dropped exactly when its target stands in an earlier token
\* and was first recorded at a position other than the first, so a repeat of
\* the target of the first token is dispatched again.
C17_DuplicateCheckSkipsFirst ==
  MessageEvent =>
    /\ alreadyBeenHandledItems = SeenItems
    /\ \A k \in DOMAIN EventItems :
         Valid(EventItems[k])
           => (Dispatched(k) <=> (~Repeat(k) \/ EventItems[1].item = EventItems[k].item))

\* three valid tokens: the second and the third name the same target, which
\* is not the target of the first; the second is dispatched, the third dropped
C17_Witness ==
  /\ MessageEvent
  /\ Len(EventItems) = 3
  /\ \A k \in 1..3 : Valid(EventItems[k])
  /\ EventItems[2].item = EventItems[3].item
  /\ EventItems[1].item # EventItems[2].item
  /\ Dispatched(2)
  /\ ~Dispatched(3)

\* C19: handleSelfPlus is invoked only by the message handler, for a token
\* whose target is the event's actor and whose operation is '+'; the one
\* collaborator call it makes is slack.sendMessage to the event's channel,
\* never a call of the score store.
C19_SelfPlusOnlyActorPlus ==
  Returned =>
    /\ \A x \in DOMAIN handled :
         handled[x].handler = "handleSelfPlus"
           => /\ MessageEvent
              /\ handled[x].n \in DOMAIN EventItems
              /\ EventItems[handled[x].n].item = event.user
              /\ EventItems[handled[x].n].operation = "+"
    /\ \A t \in DOMAIN tasks :
         tasks[t].handler = "handleSelfPlus"
           => /\ calls[t].fn = "sendMessage"
              /\ calls[t].channel = event.channel
              /\ tasks[t].state = "awaitSend"

\* the actor's own '+' went to handleSelfPlus, and the same text holds a
\* dispatched '-' on the actor and a dispatched item on somebody else
C19_Witness ==
  /\ MessageEvent
  /\ \E k \in DOMAIN EventItems : Invocations("handleSelfPlus", k) # {}
  /\ \E k \in DOMAIN EventItems :
       Dispatched(k) /\ EventItems[k].item = event.user /\ EventItems[k].operation = "-"
  /\ \E k \in DOMAIN EventItems : Dispatched(k) /\ EventItems[k].item # event.user

\* what the message handler does for event ev when ev is the only event: its
\* loop run from empty promises and alreadyBeenHandledItems
Alone(ev) ==
  ForEach([Fresh EXCEPT !.handled = <<Invocation("message", NoItem, NoOp, 0)>>],
          ExtractEvents(ev.text), ev)

\* who launched each task, for what and to which channel
Launched(ts) ==
  [t \in DOMAIN ts |-> [handler |-> ts[t].handler, item |-> ts[t].item,
                         operation |-> ts[t].operation, channel |-> ts[t].channel,
                         n |-> ts[t].n]]

\* the handler invocations h, collaborator calls c, tasks ts, promises pr and
\* seen items of one call of handleEvent are those of event ev handled alone,
\* and every call and reply goes to the channel of ev
PrivateTo(ev, h, c, ts, pr, seen) ==
  LET a == Alone(ev)
  IN /\ h = a.handled
     /\ c = a.calls
     /\ pr = a.promises
     /\ seen = a.alreadyBeenHandledItems
     /\ Launched(ts) = Launched(a.tasks)
     /\ \A t \in DOMAIN ts :
          /\ c[t].channel = ev.channel
          /\ ts[t].channel = ev.channel
          /\ ts[t].sent # <<>> => ts[t].sent = Message(ts[t].operation, ts[t].item, ts[t].score)

\* the number of points.updateScore calls among c for target i
UpdatesOf(c, i) == Cardinality({x \in DOMAIN c : c[x].fn = "updateScore" /\ c[x].item = i})

\* the number of tokens of event ev that name target i
Mentions(ev, i) ==
  Cardinality({k \in DOMAIN ExtractEvents(ev.text) : ExtractEvents(ev.text)[k].item = i})

\* C18: with two message events in flight at once, whatever the order of the
\* steps of their tasks, the seen items, tasks and collaborator calls of each
\* event are those of that event handled alone, every call and reply of an
\* event carries that event's channel, and a target named once in each event
\* is updated once for each.
C18_EventsPrivate ==
  /\ MessageEvent
       => PrivateTo(event, handled, calls, tasks, promises, alreadyBeenHandledItems)
  /\ second.pc = "returned"
       => PrivateTo(second.event, second.handled, second.calls, second.tasks,
                    second.promises, second.alreadyBeenHandledItems)
  /\ (MessageEvent /\ second.pc = "returned")
       => \A i \in Items :
            (Mentions(event, i) = 1 /\ Mentions(second.event, i) = 1)
              => UpdatesOf(calls, i) = 1 /\ UpdatesOf(second.calls, i) = 1

\* the first event names U0 and then U1, the second names U1; the reply to the
\* second event and the first reply to the first event are sent while the
\* second task of the first event still waits for the score store
C18_Witness ==
  /\ Returned
  /\ second.pc = "returned"
  /\ Len(tasks) >= 2
  /\ alreadyBeenHandledItems = <<"U0", "U1">>
  /\ second.alreadyBeenHandledItems = <<"U1">>
  /\ tasks[Len(tasks)].state = "awaitScore"
  /\ tasks[1].state = "fulfilled"
  /\ second.tasks[1].state = "fulfilled"
  /\ second.tasks[1].channel = Channel2

====
